---- MODULE Spec2Model ----
(***************************************************************************)
(* Model of the term search / filter pipeline of the glossary site:        *)
(*   - TermSearchClient (src/unnamed/part_000): the Client Refiner, an     *)
(*     in-memory filter of initialTerms by the URL criteria;               *)
(*   - TermsPage (src/unnamed/part_001): the Query Builder, the joint      *)
(*     fetch of terms and categories, and the pagination links.            *)
(* A string is a sequence of symbols (a character, or an identifier taken  *)
(* as one indivisible symbol); an optional value is None or Some(v).       *)
(***************************************************************************)
EXTENDS Integers, Sequences, FiniteSets, TLC

VARIABLES
    route,          \* which component this view shows: "search" | "terms" | "sidebar"
    searchParams,   \* the URL parameters: page, category, difficulty, q
    initialTerms,   \* TermSearchClient prop: the candidate sequence
    filteredTerms,  \* TermSearchClient: the memoised result of the filter
    restored,       \* history: the last re-filter brought back an excluded term
    pc,             \* TermsPage: "start" | "awaiting" | "rendered" | "failed"
    request,        \* TermsPage: currentPage, limit, offset, filters of this view
    termsFetch,     \* the getTerms promise: state, value, number of calls issued
    catsFetch,      \* the getCategories promise: state, value, number of calls
    view,           \* what is rendered
    sidebar,        \* Sidebar: categories prop, searchQuery, expandedCategories, location
    toggleCount     \* history: how often toggleCategory ran for each category id

vars == <<route, searchParams, initialTerms, filteredTerms, restored,
          pc, request, termsFetch, catsFetch, view, sidebar, toggleCount>>

sidebarVars == <<sidebar, toggleCount>>

pageVars == <<pc, request, termsFetch, catsFetch>>
clientVars == <<initialTerms, filteredTerms, restored>>

------------------------------------------------------------------------------
(* Bounds of the model *)

MaxTerms == 2       \* longest candidate sequence handed to TermSearchClient
MaxQueryLen == 1    \* longest free-text query typed into q
MaxPageParam == 11  \* largest page number typed into the URL
MaxPages == 9       \* the store holds at most MaxPages full pages of matches
MaxCategories == 3  \* most categories handed to Sidebar
MaxToggles == 3     \* most toggleCategory calls for one category

------------------------------------------------------------------------------
(* Optional values and strings *)

None == [has |-> FALSE]
Some(v) == [has |-> TRUE, val |-> v]

\* JavaScript truthiness of `string | null | undefined`: a non-empty string
Truthy(o) == o.has /\ Len(o.val) > 0

Alphabet == {"a", "A", "b"}

Strs(n) == UNION {[1..k -> Alphabet] : k \in 0..n}

\* variant: no case folding
LowerCharIdentity(c) == c

\* String.prototype.toLowerCase, per character
LowerChar(c) == IF c = "A" THEN "a" ELSE c

toLowerCase(s) == [i \in 1..Len(s) |-> LowerChar(s[i])]

\* String.prototype.includes: needle occurs in hay as a contiguous run
StringIncludes(hay, needle) ==
    \E i \in 1..(Len(hay) - Len(needle) + 1) :
        SubSeq(hay, i, i + Len(needle) - 1) = needle

\* Array.prototype.includes
ArrayIncludes(arr, x) == \E i \in 1..Len(arr) : arr[i] = x

------------------------------------------------------------------------------
(* Data of the Client Refiner *)

CategoryIds == {<<"security">>, <<"network">>}
Difficulties == {<<(<<"basic">>)>>, <<(<<"advanced">>), (<<"basic">>)>>}
Titles == {None, Some(<<"A", "b">>), Some(<<"b", "a">>)}

TermShapes == [category : CategoryIds, difficulty : Difficulties, search_title : Titles]

\* a candidate sequence: term ids are the positions, so they are distinct
CandidateSeqs ==
    UNION {
        {[i \in 1..n |-> [id |-> i,
                          category |-> [id |-> f[i].category],
                          difficulty |-> f[i].difficulty,
                          search_title |-> f[i].search_title]] :
            f \in [1..n -> TermShapes]} : n \in 0..MaxTerms}

CategoryParams == {None, Some(<<>>), Some(<<"security">>)}
DifficultyParams == {None, Some(<<"advanced">>)}
QueryParams == {None} \cup {Some(s) : s \in Strs(MaxQueryLen)}

NoParams == [page |-> None, category |-> None, difficulty |-> None, q |-> None]

InitialView == [status |-> "pending", showList |-> FALSE, list |-> <<>>,
                showPanel |-> FALSE, panelHref |-> None,
                showPagination |-> FALSE, prev |-> None, numbered |-> <<>>,
                next |-> None, shownCount |-> 0, categories |-> None]

------------------------------------------------------------------------------
(* JavaScript numbers, parseInt and String(number) *)

NaN == [nan |-> TRUE]
Num(n) == [nan |-> FALSE, n |-> n]

NumAdd(x, k) == IF x.nan THEN NaN ELSE Num(x.n + k)
NumSub(x, k) == IF x.nan THEN NaN ELSE Num(x.n - k)
NumMul(x, k) == IF x.nan THEN NaN ELSE Num(x.n * k)
\* every comparison with NaN is false
NumLt(x, k) == ~x.nan /\ x.n < k
NumLe(x, k) == ~x.nan /\ x.n <= k
NumGt(x, k) == ~x.nan /\ x.n > k
NumGe(x, k) == ~x.nan /\ x.n >= k

Digits == <<"0", "1", "2", "3", "4", "5", "6", "7", "8", "9">>
IsDigit(c) == \E d \in 1..Len(Digits) : Digits[d] = c
DigitVal(c) == (CHOOSE d \in 1..Len(Digits) : Digits[d] = c) - 1

RECURSIVE SkipWhitespace(_)
SkipWhitespace(s) ==
    IF s # <<>> /\ Head(s) = " " THEN SkipWhitespace(Tail(s)) ELSE s

\* the value of the longest run of leading digits; None when there is none
RECURSIVE DigitRun(_, _)
DigitRun(s, acc) ==
    IF s # <<>> /\ IsDigit(Head(s))
    THEN DigitRun(Tail(s),
                  Some((IF acc.has THEN acc.val ELSE 0) * Len(Digits) + DigitVal(Head(s))))
    ELSE acc

\* parseInt(string): leading whitespace, an optional sign, then decimal digits
\* up to the first other character; NaN when no digit is found
parseInt(str) ==
    LET t == SkipWhitespace(str)
        negative == t # <<>> /\ Head(t) = "-"
        body == IF t # <<>> /\ Head(t) \in {"+", "-"} THEN Tail(t) ELSE t
        run == DigitRun(body, None)
    IN  IF run.has THEN Num(IF negative THEN 0 - run.val ELSE run.val) ELSE NaN

RECURSIVE DecimalDigits(_)
DecimalDigits(n) ==
    IF n < Len(Digits) THEN <<Digits[n + 1]>>
    ELSE Append(DecimalDigits(n \div Len(Digits)), Digits[(n % Len(Digits)) + 1])

\* String(number)
NumberToString(x) ==
    IF x.nan THEN <<"N", "a", "N">>
    ELSE IF x.n < 0 THEN <<"-">> \o DecimalDigits(0 - x.n)
    ELSE DecimalDigits(x.n)

Min(a, b) == IF a < b THEN a ELSE b

\* Math.ceil(a / b) for b > 0
CeilDiv(a, b) == IF a % b = 0 THEN a \div b ELSE (a \div b) + 1

------------------------------------------------------------------------------
(* TermsPage: the request *)

limit == 12

\* filters: one pushed clause per truthy criterion, in this order
BuildFilters(params) ==
    LET selectedCategory == params.category
        selectedDifficulty == params.difficulty
        searchQuery == params.q
        f0 == <<>>
        f1 == IF Truthy(selectedCategory)
              THEN Append(f0, <<"category[equals]">> \o selectedCategory.val)
              ELSE f0
        f2 == IF Truthy(selectedDifficulty)
              THEN Append(f1, <<"difficulty[contains]">> \o selectedDifficulty.val)
              ELSE f1
        f3 == IF Truthy(searchQuery)
              THEN Append(f2, <<"search_title[contains]">> \o searchQuery.val)
              ELSE f2
    IN  f3

\* Array.prototype.join(separator) on an array of strings
RECURSIVE ArrayJoin(_, _)
ArrayJoin(arr, separator) ==
    IF arr = <<>> THEN <<>>
    ELSE IF Len(arr) = 1 THEN arr[1]
    ELSE arr[1] \o separator \o ArrayJoin(Tail(arr), separator)

\* variant: the clauses are joined with the OR combinator
FiltersArgumentOr(filters) ==
    IF Len(filters) > 0 THEN Some(ArrayJoin(filters, <<"[or]">>)) ELSE None

\* filters.length > 0 ? filters.join('[and]') : undefined
FiltersArgument(filters) ==
    IF Len(filters) > 0 THEN Some(ArrayJoin(filters, <<"[and]">>)) ELSE None

\* searchParams.page || '1'
PageOrDefault(params) == IF Truthy(params.page) THEN params.page.val ELSE <<"1">>

\* the page number this view uses
CurrentPage(params) == parseInt(PageOrDefault(params))

\* const offset = (currentPage - 1) * limit
Offset(currentPage) == NumMul(NumSub(currentPage, 1), limit)

NoRequest == [currentPage |-> NaN, limit |-> 0, offset |-> NaN, filters |-> None]

TermsRequest(params) ==
    LET currentPage == CurrentPage(params)
    IN  [currentPage |-> currentPage,
         limit |-> limit,
         offset |-> Offset(currentPage),
         filters |-> FiltersArgument(BuildFilters(params))]

------------------------------------------------------------------------------
(* The content store behind getTerms and getCategories *)

TotalCounts == {0} \cup {limit * k - d : k \in 1..MaxPages, d \in {0, limit - 1}}

\* the entries offset+1 .. offset+limit of `total` matches, by their rank
Slice(total, lim, off) ==
    LET n == IF off < total THEN Min(lim, total - off) ELSE 0
    IN  [i \in 1..n |-> off + i]

\* a fulfilled getTerms: for an offset that is a non-negative integer, the
\* requested slice and the total; the store's answer to any other offset is
\* not specified: no entry, or the first entries
StoreResponses(req) ==
    IF ~req.offset.nan /\ req.offset.n >= 0
    THEN {[contents |-> Slice(total, req.limit, req.offset.n), totalCount |-> total] :
             total \in TotalCounts}
    ELSE UNION {{[contents |-> <<>>, totalCount |-> total],
                 [contents |-> Slice(total, req.limit, 0), totalCount |-> total]} :
             total \in TotalCounts}

CategoryLists == {<<>>, <<(<<"security">>), (<<"network">>)>>}

------------------------------------------------------------------------------
(* TermsPage: pagination links and rendering *)

\* variant: the free-text query is not carried over
buildPaginationQueryNoQuery(page, params) ==
    <<(<<"page", NumberToString(page)>>)>>
    \o (IF Truthy(params.category)
        THEN <<(<<"category", params.category.val>>)>> ELSE <<>>)
    \o (IF Truthy(params.difficulty)
        THEN <<(<<"difficulty", params.difficulty.val>>)>> ELSE <<>>)

\* URLSearchParams as the ordered list of its key/value pairs
buildPaginationQuery(page, params) ==
    LET selectedCategory == params.category
        selectedDifficulty == params.difficulty
        searchQuery == params.q
    IN  <<(<<"page", NumberToString(page)>>)>>
        \o (IF Truthy(selectedCategory)
            THEN <<(<<"category", selectedCategory.val>>)>> ELSE <<>>)
        \o (IF Truthy(selectedDifficulty)
            THEN <<(<<"difficulty", selectedDifficulty.val>>)>> ELSE <<>>)
        \o (IF Truthy(searchQuery)
            THEN <<(<<"q", searchQuery.val>>)>> ELSE <<>>)

\* variant: the window is not clamped at the last page
WindowPageUnclamped(i, currentPage, totalPages) ==
    IF totalPages <= 7 THEN Num(i + 1)
    ELSE IF NumLe(currentPage, 4) THEN Num(i + 1)
    ELSE NumAdd(NumSub(currentPage, 3), i)

\* the page number of the i-th numbered link, i counted from 0
WindowPage(i, currentPage, totalPages) ==
    IF totalPages <= 7 THEN Num(i + 1)
    ELSE IF NumLe(currentPage, 4) THEN Num(i + 1)
    ELSE IF NumGe(currentPage, totalPages - 3) THEN Num(totalPages - 6 + i)
    ELSE NumAdd(NumSub(currentPage, 3), i)

\* Array.from({ length: Math.min(totalPages, 7) }, (_, i) => ...)
PageWindow(currentPage, totalPages) ==
    [k \in 1..Min(totalPages, 7) |-> WindowPage(k - 1, currentPage, totalPages)]

\* {currentPage > 1 && <Link href=...(currentPage - 1)>}
PrevLink(currentPage, params) ==
    IF NumGt(currentPage, 1)
    THEN Some(buildPaginationQuery(NumSub(currentPage, 1), params))
    ELSE None

\* {currentPage < totalPages && <Link href=...(currentPage + 1)>}
NextLink(currentPage, totalPages, params) ==
    IF NumLt(currentPage, totalPages)
    THEN Some(buildPaginationQuery(NumAdd(currentPage, 1), params))
    ELSE None

\* variant: the total count, not the fetched page, decides what is shown
HasEntriesByCount(termsResponse) == termsResponse.totalCount > 0

\* termsResponse.contents.length > 0
HasEntries(termsResponse) == Len(termsResponse.contents) > 0

\* the JSX of TermsPage; categories is what the await handed over for
\* getCategories()
PageRender(req, params, termsResponse, categories) ==
    LET totalPages == CeilDiv(termsResponse.totalCount, req.limit)
        currentPage == req.currentPage
        window == PageWindow(currentPage, totalPages)
        base == [InitialView EXCEPT !.status = "rendered",
                                    !.shownCount = termsResponse.totalCount,
                                    !.categories = categories]
    IN  IF HasEntries(termsResponse)
        THEN IF totalPages > 1
             THEN [base EXCEPT
                      !.showList = TRUE, !.list = termsResponse.contents,
                      !.showPagination = TRUE,
                      !.prev = PrevLink(currentPage, params),
                      !.numbered = [k \in 1..Len(window) |->
                                       [page |-> window[k],
                                        href |-> buildPaginationQuery(window[k], params),
                                        current |-> window[k] = currentPage /\ ~currentPage.nan]],
                      !.next = NextLink(currentPage, totalPages, params)]
             ELSE [base EXCEPT !.showList = TRUE, !.list = termsResponse.contents]
        ELSE [base EXCEPT !.showPanel = TRUE, !.panelHref = Some(<<>>)]

------------------------------------------------------------------------------
(* Sidebar: its props and initial state *)

\* the id of the k-th category
CategoryId(k) == <<"category">> \o DecimalDigits(k)

AllCategoryIds == {CategoryId(k) : k \in 1..MaxCategories}

\* the categories prop: a list of categories with distinct ids; [] by default
CategoryProps == {[k \in 1..n |-> CategoryId(k)] : n \in 0..MaxCategories}

SidebarQueries == {<<>>, <<" ">>, <<"a">>, <<"a", " ">>}

NoToggles == [id \in AllCategoryIds |-> 0]

\* useState('') and useState<string[]>([])
SidebarState(categories) ==
    [categories |-> categories, searchQuery |-> <<>>,
     expandedCategories |-> <<>>, location |-> None]

NoSidebar == SidebarState(<<>>)

------------------------------------------------------------------------------
(* TermsPage: one page view *)

IdleFetch == [state |-> "idle", value |-> None, calls |-> 0]

PageParams == {None, Some(<<>>), Some(<<"a", "b", "c">>), Some(<<"2", "x">>),
               Some(<<" ", "3">>)}
              \cup {Some(NumberToString(Num(n))) : n \in (0 - 2)..MaxPageParam}
PageCategoryParams == {None, Some(<<>>), Some(<<"security">>)}
PageDifficultyParams == {None, Some(<<>>), Some(<<"advanced">>)}
PageQueryParams == {None, Some(<<>>), Some(<<"A", "b">>)}

InitPage ==
    /\ route = "terms"
    /\ searchParams \in [page : PageParams, category : PageCategoryParams,
                         difficulty : PageDifficultyParams, q : PageQueryParams]
    /\ initialTerms = <<>>
    /\ filteredTerms = <<>>
    /\ restored = FALSE
    /\ sidebar = NoSidebar
    /\ toggleCount = NoToggles
    /\ pc = "start"
    /\ request = NoRequest
    /\ termsFetch = IdleFetch
    /\ catsFetch = IdleFetch
    /\ view = InitialView

\* lines 27-56 up to the await: derive the request, call getTerms and
\* getCategories, and wait for Promise.all of the two promises
PageBegin ==
    /\ route = "terms"
    /\ pc = "start"
    /\ request' = TermsRequest(searchParams)
    /\ termsFetch' = [state |-> "pending", value |-> None, calls |-> termsFetch.calls + 1]
    /\ catsFetch' = [state |-> "pending", value |-> None, calls |-> catsFetch.calls + 1]
    /\ pc' = "awaiting"
    /\ UNCHANGED <<sidebarVars, route, searchParams, clientVars, view>>

TermsFulfilled ==
    /\ route = "terms"
    /\ termsFetch.state = "pending"
    /\ \E r \in StoreResponses(request) :
          termsFetch' = [termsFetch EXCEPT !.state = "fulfilled", !.value = Some(r)]
    /\ UNCHANGED <<sidebarVars, route, searchParams, clientVars, pc, request, catsFetch, view>>

TermsRejected ==
    /\ route = "terms"
    /\ termsFetch.state = "pending"
    /\ termsFetch' = [termsFetch EXCEPT !.state = "rejected"]
    /\ UNCHANGED <<sidebarVars, route, searchParams, clientVars, pc, request, catsFetch, view>>

CategoriesFulfilled ==
    /\ route = "terms"
    /\ catsFetch.state = "pending"
    /\ \E c \in CategoryLists :
          catsFetch' = [catsFetch EXCEPT !.state = "fulfilled", !.value = Some(c)]
    /\ UNCHANGED <<sidebarVars, route, searchParams, clientVars, pc, request, termsFetch, view>>

CategoriesRejected ==
    /\ route = "terms"
    /\ catsFetch.state = "pending"
    /\ catsFetch' = [catsFetch EXCEPT !.state = "rejected"]
    /\ UNCHANGED <<sidebarVars, route, searchParams, clientVars, pc, request, termsFetch, view>>

\* variant: only the term fetch is awaited
TermsFulfilledOnly(terms, cats) == terms.state = "fulfilled"

\* Promise.all is fulfilled once both promises are
AllFulfilled(terms, cats) == terms.state = "fulfilled" /\ cats.state = "fulfilled"

\* Promise.all is rejected as soon as one promise is
AnyRejected(terms, cats) == terms.state = "rejected" \/ cats.state = "rejected"

\* the await returns: lines 59-204
PageRendered ==
    /\ route = "terms"
    /\ pc = "awaiting"
    /\ AllFulfilled(termsFetch, catsFetch)
    /\ view' = PageRender(request, searchParams, termsFetch.value.val, catsFetch.value)
    /\ pc' = "rendered"
    /\ UNCHANGED <<sidebarVars, route, searchParams, clientVars, request, termsFetch, catsFetch>>

\* the await throws: TermsPage has no catch, the rejection leaves the component
PageFailed ==
    /\ route = "terms"
    /\ pc = "awaiting"
    /\ AnyRejected(termsFetch, catsFetch)
    /\ view' = [InitialView EXCEPT !.status = "error"]
    /\ pc' = "failed"
    /\ UNCHANGED <<sidebarVars, route, searchParams, clientVars, request, termsFetch, catsFetch>>

\* the value of `key` in a query, as URLSearchParams.get reads it
QueryGet(query, key) ==
    IF \E i \in 1..Len(query) : query[i][1] = key
    THEN Some(query[CHOOSE i \in 1..Len(query) : query[i][1] = key][2])
    ELSE None

ParamsOfQuery(query) ==
    [page |-> QueryGet(query, "page"), category |-> QueryGet(query, "category"),
     difficulty |-> QueryGet(query, "difficulty"), q |-> QueryGet(query, "q")]

\* the hrefs of the links the rendered page holds
LinksOf(v) ==
    {l.val : l \in {x \in {v.prev, v.next, v.panelHref} : x.has}}
    \cup {v.numbered[k].href : k \in 1..Len(v.numbered)}

\* the user follows a link of the page: a new page view with the link's query
FollowLink ==
    /\ route = "terms"
    /\ pc = "rendered"
    /\ \E href \in LinksOf(view) : searchParams' = ParamsOfQuery(href)
    /\ pc' = "start"
    /\ request' = NoRequest
    /\ termsFetch' = IdleFetch
    /\ catsFetch' = IdleFetch
    /\ view' = InitialView
    /\ UNCHANGED <<sidebarVars, route, clientVars>>

------------------------------------------------------------------------------
(* TermSearchClient *)

\* variant: the filter starts from the previously filtered sequence
RefineSourcePrevious(initial, previous) == previous

\* the sequence the filter starts from: `let terms = initialTerms`
RefineSource(initial, previous) == initial

\* variant: the comparison is inverted (!== for ===)
CategoryMatchesInverted(term, selectedCategory) == term.category.id # selectedCategory

\* term.category?.id === selectedCategory
CategoryMatches(term, selectedCategory) == term.category.id = selectedCategory

\* term.difficulty.includes(selectedDifficulty)
DifficultyMatches(term, selectedDifficulty) ==
    ArrayIncludes(term.difficulty, selectedDifficulty)

\* term.search_title?.toLowerCase().includes(lowerCaseQuery): undefined, hence
\* falsy, when the term has no search_title
SearchTitleMatches(term, lowerCaseQuery) ==
    IF term.search_title.has
    THEN StringIncludes(toLowerCase(term.search_title.val), lowerCaseQuery)
    ELSE FALSE

\* the body of the useMemo callback; Array.prototype.filter is SelectSeq
FilterTerms(source, params) ==
    LET selectedCategory == params.category
        selectedDifficulty == params.difficulty
        searchQuery == params.q
        terms0 == source
        terms1 == IF Truthy(selectedCategory)
                  THEN SelectSeq(terms0,
                           LAMBDA term : CategoryMatches(term, selectedCategory.val))
                  ELSE terms0
        terms2 == IF Truthy(selectedDifficulty)
                  THEN SelectSeq(terms1,
                           LAMBDA term : DifficultyMatches(term, selectedDifficulty.val))
                  ELSE terms1
        terms3 == IF Truthy(searchQuery)
                  THEN LET lowerCaseQuery == toLowerCase(searchQuery.val)
                       IN  SelectSeq(terms2,
                               LAMBDA term : SearchTitleMatches(term, lowerCaseQuery))
                  ELSE terms2
    IN  terms3

\* the JSX of TermSearchClient: the list when filteredTerms is non-empty, the
\* "no terms found" panel with its link to /terms otherwise
ClientRender(terms) ==
    IF Len(terms) > 0
    THEN [InitialView EXCEPT !.status = "rendered", !.showList = TRUE,
                             !.list = [i \in 1..Len(terms) |-> terms[i].id],
                             !.shownCount = Len(terms)]
    ELSE [InitialView EXCEPT !.status = "rendered", !.showPanel = TRUE,
                             !.panelHref = Some(<<>>), !.shownCount = Len(terms)]

InitClient ==
    /\ route = "search"
    /\ searchParams = NoParams
    /\ initialTerms \in CandidateSeqs
    /\ filteredTerms = FilterTerms(RefineSource(initialTerms, initialTerms), searchParams)
    /\ restored = FALSE
    /\ sidebar = NoSidebar
    /\ toggleCount = NoToggles
    /\ pc = "client"
    /\ request = NoRequest
    /\ termsFetch = IdleFetch
    /\ catsFetch = IdleFetch
    /\ view = ClientRender(filteredTerms)

\* the criteria source changes; useMemo recomputes and the component re-renders
ClientRefilter(params) ==
    /\ route = "search"
    /\ params # searchParams
    /\ searchParams' = params
    /\ filteredTerms' = FilterTerms(RefineSource(initialTerms, filteredTerms), params)
    /\ restored' = (\E i \in 1..Len(filteredTerms') :
                        \A j \in 1..Len(filteredTerms) :
                            filteredTerms[j].id # filteredTerms'[i].id)
    /\ view' = ClientRender(filteredTerms')
    /\ UNCHANGED <<sidebarVars, route, initialTerms, pageVars>>

SetCategory ==
    \E c \in CategoryParams : ClientRefilter([searchParams EXCEPT !.category = c])

SetDifficulty ==
    \E d \in DifficultyParams : ClientRefilter([searchParams EXCEPT !.difficulty = d])

SetQuery ==
    \E q \in QueryParams : ClientRefilter([searchParams EXCEPT !.q = q])

------------------------------------------------------------------------------
(* Sidebar (src/src/components/Sidebar.tsx) *)

\* variant: the id is appended whether or not it is already expanded
ToggleAlwaysAppend(prev, categoryId) == Append(prev, categoryId)

\* the updater of setExpandedCategories:
\* prev.includes(categoryId) ? prev.filter(id => id !== categoryId) : [...prev, categoryId]
ToggledCategories(prev, categoryId) ==
    IF ArrayIncludes(prev, categoryId)
    THEN SelectSeq(prev, LAMBDA id : id # categoryId)
    ELSE Append(prev, categoryId)

\* expandedCategories.includes(category.id): the category is rendered expanded
RenderedExpanded(state, categoryId) ==
    ArrayIncludes(state.expandedCategories, categoryId)

\* String.prototype.trim
RECURSIVE TrimStart(_)
TrimStart(s) == IF s # <<>> /\ Head(s) = " " THEN TrimStart(Tail(s)) ELSE s

RECURSIVE TrimEnd(_)
TrimEnd(s) ==
    IF s # <<>> /\ s[Len(s)] = " " THEN TrimEnd(SubSeq(s, 1, Len(s) - 1)) ELSE s

Trim(s) == TrimEnd(TrimStart(s))

\* encodeURIComponent: a space is escaped, a letter is kept
RECURSIVE encodeURIComponent(_)
encodeURIComponent(s) ==
    IF s = <<>> THEN <<>>
    ELSE (IF Head(s) = " " THEN <<"%", "2", "0">> ELSE <<Head(s)>>)
         \o encodeURIComponent(Tail(s))

InitSidebar ==
    /\ route = "sidebar"
    /\ searchParams = NoParams
    /\ initialTerms = <<>>
    /\ filteredTerms = <<>>
    /\ restored = FALSE
    /\ pc = "sidebar"
    /\ request = NoRequest
    /\ termsFetch = IdleFetch
    /\ catsFetch = IdleFetch
    /\ view = InitialView
    /\ \E categories \in CategoryProps : sidebar = SidebarState(categories)
    /\ toggleCount = NoToggles

\* the page is still shown: no navigation has replaced it
SidebarShown == route = "sidebar" /\ ~sidebar.location.has

\* onClick of a category header: toggleCategory(category.id)
toggleCategory ==
    /\ SidebarShown
    /\ \E k \in 1..Len(sidebar.categories) :
          LET categoryId == sidebar.categories[k]
          IN  /\ toggleCount[categoryId] < MaxToggles
              /\ sidebar' = [sidebar EXCEPT !.expandedCategories =
                                ToggledCategories(sidebar.expandedCategories, categoryId)]
              /\ toggleCount' = [toggleCount EXCEPT ![categoryId] = @ + 1]
    /\ UNCHANGED <<route, searchParams, clientVars, pageVars, view>>

\* onChange of the search box: setSearchQuery(e.target.value)
setSearchQuery ==
    /\ SidebarShown
    /\ \E value \in SidebarQueries :
          /\ value # sidebar.searchQuery
          /\ sidebar' = [sidebar EXCEPT !.searchQuery = value]
    /\ UNCHANGED <<toggleCount, route, searchParams, clientVars, pageVars, view>>

\* onSubmit of the search form: with a query that is not blank the browser
\* leaves for /search?q=...; with a blank one nothing changes
handleSearch ==
    /\ SidebarShown
    /\ Trim(sidebar.searchQuery) # <<>>
    /\ sidebar' = [sidebar EXCEPT !.location =
                      Some(<<"/search?q=">> \o encodeURIComponent(sidebar.searchQuery))]
    /\ UNCHANGED <<toggleCount, route, searchParams, clientVars, pageVars, view>>

------------------------------------------------------------------------------
Init == InitClient \/ InitPage \/ InitSidebar

Next ==
    \/ SetCategory
    \/ SetDifficulty
    \/ SetQuery
    \/ PageBegin
    \/ TermsFulfilled
    \/ TermsRejected
    \/ CategoriesFulfilled
    \/ CategoriesRejected
    \/ PageRendered
    \/ PageFailed
    \/ FollowLink
    \/ toggleCategory
    \/ setSearchQuery
    \/ handleSearch

Spec == Init /\ [][Next]_vars

------------------------------------------------------------------------------
(* Reference notions the properties are stated with *)

\* a criterion is present when its parameter holds a non-empty string
Present(o) == o.has /\ o.val # <<>>

SameLetter(c, d) == c = d \/ {c, d} = {"a", "A"}

SameIgnoringCase(s, t) ==
    Len(s) = Len(t) /\ \A j \in 1..Len(s) : SameLetter(s[j], t[j])

\* query occurs in text as a contiguous run, letter case disregarded
ContainsIgnoringCase(text, query) ==
    \E off \in 0..(Len(text) - Len(query)) :
        \A j \in 1..Len(query) : SameLetter(text[off + j], query[j])

Satisfies(term, criteria) ==
    /\ Present(criteria.category) => term.category.id = criteria.category.val
    /\ Present(criteria.difficulty) =>
           criteria.difficulty.val \in {term.difficulty[k] : k \in 1..Len(term.difficulty)}
    /\ Present(criteria.q) =>
           /\ term.search_title.has
           /\ ContainsIgnoringCase(term.search_title.val, criteria.q.val)

\* result is the subsequence of source holding exactly the satisfying terms,
\* each once and in the order of source
IsRefinement(result, source, criteria) ==
    LET keep == {i \in 1..Len(source) : Satisfies(source[i], criteria)}
    IN  /\ Len(result) = Cardinality(keep)
        /\ \A i \in keep : result[Cardinality({j \in keep : j <= i})] = source[i]

AllCriteria == [page : {None}, category : CategoryParams,
                difficulty : DifficultyParams, q : QueryParams]

IdsOf(terms) == [k \in 1..Len(terms) |-> terms[k].id]

------------------------------------------------------------------------------
\* C1: for every candidate sequence and every Filter Criteria, the Client
\* Refiner returns exactly the subsequence of initialTerms whose terms satisfy
\* every present criterion, in the original order, nothing added, duplicated
\* or reordered.
C1_RefinerSubsequence ==
    route = "search" =>
        /\ IsRefinement(FilterTerms(initialTerms, searchParams), initialTerms, searchParams)
        /\ (searchParams = NoParams /\ ~restored) =>
               \A c \in AllCriteria :
                   IsRefinement(FilterTerms(initialTerms, c), initialTerms, c)

\* all three criteria present, some term kept and some term dropped
C1_Witness ==
    /\ route = "search"
    /\ Present(searchParams.category)
    /\ Present(searchParams.difficulty)
    /\ Present(searchParams.q)
    /\ Len(filteredTerms) > 0
    /\ Len(filteredTerms) < Len(initialTerms)

\* C2: after any sequence of changes of the criteria, the list shown equals
\* the refinement of the original initialTerms by the current criteria alone,
\* so a term an earlier criterion excluded is shown again once the criteria
\* admit it.
C2_ShownIsRefinementOfOriginal ==
    route = "search" =>
        /\ IsRefinement(filteredTerms, initialTerms, searchParams)
        /\ view.list = IdsOf(filteredTerms)

\* the last change of criteria brought back a term the previous one excluded
C2_Witness ==
    /\ route = "search"
    /\ restored
    /\ Len(view.list) > 0

------------------------------------------------------------------------------
\* the least n with n * size >= count
PagesNeeded(count, size) == CHOOSE n \in 0..count : n * size >= count /\ (n = 0 \/ (n - 1) * size < count)

RequestBuilt == route = "terms" /\ pc \in {"awaiting", "rendered", "failed"}

PageShown == route = "terms" /\ pc = "rendered"

TotalPagesShown == PagesNeeded(termsFetch.value.val.totalCount, 12)

\* C3: whatever the URL parameter page holds, the page number used is an
\* integer >= 1, the limit passed to getTerms is 12 and the offset passed is
\* (page - 1) * 12, a non-negative multiple of 12.
C3_PageAndOffset ==
    RequestBuilt =>
        /\ ~request.currentPage.nan
        /\ request.currentPage.n >= 1
        /\ request.limit = 12
        /\ ~request.offset.nan
        /\ request.offset.n = (request.currentPage.n - 1) * 12
        /\ request.offset.n >= 0
        /\ request.offset.n % 12 = 0

\* C4: for totalPages >= 2 and currentPage in 1..totalPages the numbered links
\* are 1..totalPages when totalPages <= 7, and otherwise the 7 consecutive
\* pages starting at currentPage - 3, moved to 1..7 or to
\* totalPages-6..totalPages when that window would leave 1..totalPages; the
\* window holds currentPage and nothing outside 1..totalPages.
C4_PageWindow ==
    LET tp == TotalPagesShown
        cp == request.currentPage
        shown == [k \in 1..Len(view.numbered) |-> view.numbered[k].page]
        start == IF cp.n - 3 < 1 THEN 1
                 ELSE IF cp.n + 3 > tp THEN tp - 6
                 ELSE cp.n - 3
    IN  (PageShown /\ tp >= 2 /\ ~cp.nan /\ cp.n \in 1..tp) =>
            /\ view.showPagination
            /\ IF tp <= 7
               THEN shown = [k \in 1..tp |-> Num(k)]
               ELSE shown = [k \in 1..7 |-> Num(start + k - 1)]
            /\ \E k \in 1..Len(shown) : shown[k] = cp
            /\ \A k \in 1..Len(shown) : ~shown[k].nan /\ shown[k].n \in 1..tp

\* more than 7 pages and a current page the window is centred on
C4_Witness ==
    /\ PageShown
    /\ view.showPagination
    /\ TotalPagesShown > 7
    /\ ~request.currentPage.nan
    /\ request.currentPage.n - 3 > 1
    /\ request.currentPage.n + 3 < TotalPagesShown

LinkTarget(link) == parseInt(QueryGet(link.val, "page").val)

\* C5: a "previous" link is shown only when currentPage > 1 and points to
\* currentPage - 1, a "next" link only when currentPage < totalPages and
\* points to currentPage + 1; page 1 has no "previous" link, the last page no
\* "next" link, and no link targets a page outside 1..totalPages.
C5_PrevNextLinks ==
    LET tp == TotalPagesShown
        cp == request.currentPage
    IN  PageShown =>
            /\ view.prev.has =>
                   /\ NumGt(cp, 1)
                   /\ LinkTarget(view.prev) = NumSub(cp, 1)
                   /\ NumGe(LinkTarget(view.prev), 1) /\ NumLe(LinkTarget(view.prev), tp)
            /\ view.next.has =>
                   /\ NumLt(cp, tp)
                   /\ LinkTarget(view.next) = NumAdd(cp, 1)
                   /\ NumGe(LinkTarget(view.next), 1) /\ NumLe(LinkTarget(view.next), tp)
            /\ cp = Num(1) => ~view.prev.has
            /\ cp = Num(tp) => ~view.next.has

\* the clauses the present criteria call for, in the order of the builder
ExpectedClauses(criteria) ==
    (IF Present(criteria.category)
     THEN <<(<<"category[equals]">> \o criteria.category.val)>> ELSE <<>>)
    \o (IF Present(criteria.difficulty)
        THEN <<(<<"difficulty[contains]">> \o criteria.difficulty.val)>> ELSE <<>>)
    \o (IF Present(criteria.q)
        THEN <<(<<"search_title[contains]">> \o criteria.q.val)>> ELSE <<>>)

ExpectedExpression(clauses) ==
    IF Len(clauses) = 0 THEN None
    ELSE IF Len(clauses) = 1 THEN Some(clauses[1])
    ELSE IF Len(clauses) = 2 THEN Some(clauses[1] \o <<"[and]">> \o clauses[2])
    ELSE Some(clauses[1] \o <<"[and]">> \o clauses[2] \o <<"[and]">> \o clauses[3])

CombinatorCount(expression) ==
    Cardinality({k \in 1..Len(expression) : expression[k] = "[and]"})

PresentCount(criteria) ==
    Cardinality({f \in {"category", "difficulty", "q"} : Present(criteria[f])})

\* C6: the Query Builder produces one clause per present criterion and none
\* for an absent one, joined by the AND combinator, and passes no filter
\* expression when all three are absent; the expression is a function of the
\* criteria, and building it leaves the input parameters as they were.
C6_QueryBuilder ==
    /\ [](RequestBuilt =>
            /\ request.filters = ExpectedExpression(ExpectedClauses(searchParams))
            /\ request.filters.has <=> PresentCount(searchParams) > 0
            /\ request.filters.has =>
                   CombinatorCount(request.filters.val) = PresentCount(searchParams) - 1)
    /\ [][(pc = "start" /\ pc' = "awaiting") => searchParams' = searchParams]_vars

\* a request whose three criteria are all present
C6_Witness ==
    /\ RequestBuilt
    /\ PresentCount(searchParams) = 3
    /\ request.filters.has

PaginationLinks(v) ==
    {l.val : l \in {x \in {v.prev, v.next} : x.has}}
    \cup {v.numbered[k].href : k \in 1..Len(v.numbered)}

KeysOf(query) == {query[k][1] : k \in 1..Len(query)}

\* C7: every pagination link carries each active filter parameter with its
\* value, no filter parameter that is not active, and differs from the current
\* parameters only in page; the "view all" link carries no parameter.
C7_LinksKeepFilters ==
    PageShown =>
        /\ \A href \in PaginationLinks(view) :
              /\ Cardinality(KeysOf(href)) = Len(href)
              /\ "page" \in KeysOf(href)
              /\ \A f \in {"category", "difficulty", "q"} :
                    IF Present(searchParams[f])
                    THEN QueryGet(href, f) = searchParams[f]
                    ELSE f \notin KeysOf(href)
        /\ view.panelHref.has => view.panelHref.val = <<>>

\* a page with both a previous and a next link while all three filters are active
C7_Witness ==
    /\ PageShown
    /\ view.prev.has
    /\ view.next.has
    /\ PresentCount(searchParams) = 3

\* C8: a page view issues at most one term fetch and one category fetch, which
\* settle in either order; the page is rendered only once both are fulfilled
\* and then from both results; when one is rejected nothing is rendered.
C8_JointFetch ==
    route = "terms" =>
        /\ termsFetch.calls <= 1
        /\ catsFetch.calls <= 1
        /\ view.status = "rendered" =>
               /\ termsFetch.state = "fulfilled"
               /\ catsFetch.state = "fulfilled"
               /\ view.categories = catsFetch.value
               /\ view.shownCount = termsFetch.value.val.totalCount
        /\ view.status # "rendered" =>
               /\ ~view.showList /\ ~view.showPanel /\ ~view.showPagination
               /\ ~view.categories.has
        /\ (termsFetch.state = "rejected" \/ catsFetch.state = "rejected") =>
               view.status # "rendered"
        /\ pc = "failed" =>
               (termsFetch.state = "rejected" \/ catsFetch.state = "rejected")

\* the term fetch succeeded, the category fetch failed, and the view failed
C8_Witness ==
    /\ route = "terms"
    /\ pc = "failed"
    /\ termsFetch.state = "fulfilled"
    /\ catsFetch.state = "rejected"

NonEmptyQueries == {q \in QueryParams : Present(q)}

\* the terms of initialTerms the category and difficulty criteria admit
AdmittedByOthers ==
    {i \in 1..Len(initialTerms) :
        Satisfies(initialTerms[i], [searchParams EXCEPT !.q = None])}

EntriesToDisplay ==
    IF route = "search" THEN IdsOf(filteredTerms) ELSE termsFetch.value.val.contents

\* C10: in both components an empty entry set shows the "no terms found"
\* panel with its link to /terms, no term list and no pagination link; a
\* non-empty entry set shows the term list and not the panel.
C10_EmptyPanel ==
    view.status = "rendered" =>
        IF Len(EntriesToDisplay) = 0
        THEN /\ view.showPanel
             /\ view.panelHref = Some(<<>>)
             /\ ~view.showList
             /\ view.list = <<>>
             /\ ~view.showPagination
             /\ ~view.prev.has /\ ~view.next.has /\ view.numbered = <<>>
        ELSE /\ view.showList
             /\ view.list = EntriesToDisplay
             /\ ~view.showPanel
             /\ ~view.panelHref.has

\* a page past the last one: the store has matches, the fetched page is empty
C10_Witness ==
    /\ PageShown
    /\ Len(termsFetch.value.val.contents) = 0
    /\ termsFetch.value.val.totalCount > 12
    /\ view.showPanel

------------------------------------------------------------------------------
ExpandedIds == {sidebar.expandedCategories[k] : k \in 1..Len(sidebar.expandedCategories)}

\* C11: after any sequence of toggleCategory calls from the initial state,
\* expandedCategories holds no id twice and holds a category id exactly when
\* that id was toggled an odd number of times; a toggle of one category leaves
\* every other category expanded or collapsed as it was, and leaves searchQuery.
C11_ToggleParity ==
    /\ [](route = "sidebar" =>
            /\ Cardinality(ExpandedIds) = Len(sidebar.expandedCategories)
            /\ \A id \in AllCategoryIds :
                  /\ id \in ExpandedIds <=> toggleCount[id] % 2 = 1
                  /\ RenderedExpanded(sidebar, id) <=> toggleCount[id] % 2 = 1)
    /\ [][\A id \in AllCategoryIds :
            toggleCount'[id] # toggleCount[id] =>
                /\ \A other \in AllCategoryIds \ {id} :
                      other \in ExpandedIds' <=> other \in ExpandedIds
                /\ sidebar'.searchQuery = sidebar.searchQuery]_vars

\* one category toggled three times and expanded, another toggled twice and
\* collapsed, a third expanded, while the search box holds text
C11_Witness ==
    /\ route = "sidebar"
    /\ sidebar.searchQuery # <<>>
    /\ Len(sidebar.expandedCategories) >= 2
    /\ \E id \in AllCategoryIds : toggleCount[id] = 3 /\ id \in ExpandedIds
    /\ \E id \in AllCategoryIds : toggleCount[id] = 2 /\ id \notin ExpandedIds

====
